---- MODULE Spec2Model ----
(***************************************************************************)
(* Adaptive Radix Tree of src/src/art.rs as a state machine.               *)
(*                                                                         *)
(* The heap is a function from node addresses to node records; a pointer   *)
(* is an address, NULL the null pointer.  A "slot" is the place a pointer  *)
(* is stored in (the `*mut *mut Node<T>` of the code): the root field of   *)
(* the tree handle, or entry i of the child_pointers array of node n.      *)
(* Arrays are functions on 0..len-1, as in the code; key byte sequences    *)
(* (Vec<u8>) are TLA+ sequences and are read through At (0-based).         *)
(***************************************************************************)
EXTENDS Integers, Sequences, FiniteSets, TLC

VARIABLES ktype, root, heap, aborted, stored, phase, calls, radix, trie

vars == <<ktype, root, heap, aborted, stored, phase, calls, radix, trie>>

(***************************************************************************)
(* Program constants                                                       *)
(***************************************************************************)
MAX_PREFIX_LEN == 10

NULL == 0

\* what a pointer holds once the node it pointed to has been freed
DANGLING == -1

\* `key: [48; 256]` : the value that marks an absent byte in Node48
N48_ABSENT == 48

(***************************************************************************)
(* Bounds of the model                                                     *)
(***************************************************************************)
\* largest number of live heap nodes: an insert allocates at most two
MaxNodes == 5

\* largest number of insert and delete calls on one tree
MaxCalls == 6

\* values are 1..MaxVal
MaxVal == 2

\* integer keys of the narrow key type have their bytes in 0..MaxByte
MaxByte == 1

\* integer keys of the wide key type are 0..MaxWide
MaxWide == 3

\* String keys have 1..MaxStrLen characters
MaxStrLen == 2

\* u16 keys below 256: the keys 0..MaxFill-1 are inserted in ascending order
MaxFill == 49

\* largest number of other insert and delete calls on a tree of such keys
MaxFanCalls == 2

\* signed keys are -MaxSigned..MaxSigned-1
MaxSigned == 2

\* keys of the RadixTree have 1..MaxRadixLen characters
MaxRadixLen == 3

\* largest number of insert, find and delete calls on one RadixTree
MaxRadixCalls == 3

\* sequences given to a TrieNode have 0..MaxTrieLen items
MaxTrieLen == 2

\* largest number of add and find calls on one TrieNode
MaxTrieCalls == 4

(***************************************************************************)
(* Results of find                                                         *)
(***************************************************************************)
None == 0

\* T::default() of the value type u32
Default == 0

\* the operation panicked (index out of bounds, slice out of range)
Panic == -1

Values == 1..MaxVal

(***************************************************************************)
(* Small helpers                                                           *)
(***************************************************************************)
Min(a, b) == IF a < b THEN a ELSE b

At(s, i) == s[i + 1]

\* s[from..]  (0-based, from <= Len(s))
Suffix(s, from) == SubSeq(s, from + 1, Len(s))

\* s[from..to] (0-based, half open)
Slice(s, from, to) == SubSeq(s, from + 1, to)

\* the first n entries of an array as a sequence
ArrSeq(a, n) == [i \in 1..n |-> a[i - 1]]

\* Calculate a number of equal bytes in two slices
common_prefix(a, b) ==
    LET m == Min(Len(a), Len(b))
        S == {n \in 0..m : \A i \in 1..n : a[i] = b[i]}
    IN  Cardinality(S) - 1

(***************************************************************************)
(* ArtKey::bytes                                                           *)
(***************************************************************************)
RECURSIVE to_be_bytes(_, _)
to_be_bytes(n, width) ==
    IF width = 0 THEN << >>
    ELSE Append(to_be_bytes(n \div 256, width - 1), n % 256)

\* size_of of the key type
Width(kt) ==
    IF kt \in {"u8", "i8"} THEN 1
    ELSE IF kt \in {"u16", "i16"} THEN 2
    ELSE IF kt = "u32" THEN 4
    ELSE 16

bytes(kt, k) == IF kt = "String" THEN k ELSE to_be_bytes(k, Width(kt))

(***************************************************************************)
(* Nodes.  A leaf is [kind, key, value]; an inner node is                  *)
(* [kind, count, partial, partial_len, key, child_pointers] (Info's fields *)
(* are kept flat in the node record).                                      *)
(***************************************************************************)
Cap(kind) ==
    IF kind = "N4" THEN 4
    ELSE IF kind = "N16" THEN 16
    ELSE IF kind = "N48" THEN 48
    ELSE 256

ZeroArr(n) == [i \in 0..(n - 1) |-> 0]

NullArr(n) == [i \in 0..(n - 1) |-> NULL]

LeafNode_new(value, key) == [kind |-> "Leaf", key |-> key, value |-> value]

Node4_new(prefix) ==
    LET min == Min(MAX_PREFIX_LEN, Len(prefix))
    IN  [kind |-> "N4",
         count |-> 0,
         partial |-> [i \in 0..(MAX_PREFIX_LEN - 1) |->
                         IF i < min THEN prefix[i + 1] ELSE 0],
         partial_len |-> min,
         key |-> ZeroArr(4),
         child_pointers |-> NullArr(4)]

\* Node4/Node16/Node48/Node256::new_with_info: a copied info header, an
\* empty key layout and null child pointers
new_with_info(kind, info) ==
    [kind |-> kind,
     count |-> info.count,
     partial |-> info.partial,
     partial_len |-> info.partial_len,
     key |-> IF kind = "N48" THEN [b \in 0..255 |-> N48_ABSENT]
             ELSE IF kind = "N256" THEN << >>
             ELSE ZeroArr(Cap(kind)),
     child_pointers |-> NullArr(Cap(kind))]

MinOf(S) == CHOOSE x \in S : \A y \in S : x <= y

MaxOf(S) == CHOOSE x \in S : \A y \in S : y <= x

\* the byte as the i8 that _mm_cmplt_epi8 compares
AsI8(b) == IF b >= 128 THEN b - 256 ELSE b

\* array.copy_within(i..count, i + 1), then array[i] = x
ShiftIn(arr, i, count, x) ==
    [j \in DOMAIN arr |->
        IF j = i THEN x
        ELSE IF j > i /\ j <= count THEN arr[j - 1]
        ELSE arr[j]]

\* Node4::add: the insertion index found by the while loop
Node4_pos(n, b) ==
    LET lim == Min(3, n.count)
        S == {j \in 0..(lim - 1) : b < n.key[j]}
    IN  IF S = {} THEN lim ELSE MinOf(S)

Node4_add(n, node, b) ==
    LET i == Node4_pos(n, b)
    IN  IF i # 3 /\ n.count # 0
        THEN [n EXCEPT !.key = ShiftIn(n.key, i, n.count, b),
                       !.child_pointers = ShiftIn(n.child_pointers, i, n.count, node),
                       !.count = n.count + 1]
        ELSE [n EXCEPT !.key[i] = b,
                       !.child_pointers[i] = node,
                       !.count = n.count + 1]

\* Node16::add: the index is the first of the first `count` lanes whose key
\* is greater than the new byte in the signed comparison
Node16_pos(n, b) ==
    LET S == {j \in 0..(n.count - 1) : AsI8(b) < AsI8(n.key[j])}
    IN  IF S = {} THEN n.count ELSE MinOf(S)

Node16_add(n, node, b) ==
    LET i == Node16_pos(n, b)
    IN  [n EXCEPT !.key = ShiftIn(n.key, i, n.count, b),
                  !.child_pointers = ShiftIn(n.child_pointers, i, n.count, node),
                  !.count = n.count + 1]

\* Node48::add: the first free place of child_pointers
Node48_free(n) == {i \in 0..47 : n.child_pointers[i] = NULL}

Node48_add(n, node, b) ==
    LET i == MinOf(Node48_free(n))
    IN  [n EXCEPT !.child_pointers[i] = node,
                  !.key[b] = i,
                  !.count = n.count + 1]

Node256_add(n, node, b) ==
    [n EXCEPT !.child_pointers[b] = node, !.count = n.count + 1]

\* add indexes out of bounds: copy_within past the end of a full Node4, or
\* no null entry in a Node48
add_panics(n, b) ==
    \/ n.kind = "N4" /\ n.count >= 4 /\ Node4_pos(n, b) # 3
    \/ n.kind = "N16" /\ n.count >= 16
    \/ n.kind = "N48" /\ Node48_free(n) = {}

add(n, node, b) ==
    IF n.kind = "N4" THEN Node4_add(n, node, b)
    ELSE IF n.kind = "N16" THEN Node16_add(n, node, b)
    ELSE IF n.kind = "N48" THEN Node48_add(n, node, b)
    ELSE Node256_add(n, node, b)

\* find_child: the index into child_pointers of the child for byte b, or -1
find_child(n, b) ==
    IF n.kind = "N4" \/ n.kind = "N16"
    THEN LET S == {j \in 0..(n.count - 1) : n.key[j] = b}
         IN  IF S = {} THEN -1 ELSE MinOf(S)
    ELSE IF n.kind = "N48"
    THEN IF n.key[b] # N48_ABSENT THEN n.key[b] ELSE -1
    ELSE IF n.child_pointers[b] # NULL THEN b ELSE -1

(***************************************************************************)
(* Heap and slots                                                          *)
(***************************************************************************)
RootSlot == [n |-> NULL, i |-> 0]

ChildSlot(id, idx) == [n |-> id, i |-> idx]

ReadSlot(h, r, s) == IF s.n = NULL THEN r ELSE h[s.n].child_pointers[s.i]

\* Within one call the heap is a sequence of nodes and an address is an
\* index into it; a freed node stays in the sequence as FreedNode, so no
\* address is given out twice within a call.
FreedNode == [kind |-> "Freed"]

\* the pointer is the address of a node that is allocated
Live(h, p) == p \in DOMAIN h /\ h[p].kind # "Freed"

\* Box::into_raw(Box::new(..)): a new address
Alloc(h) == Len(h) + 1

\* Box::from_raw(p), dropped
Free(h, p) == [h EXCEPT ![p] = FreedNode]

\* *p = node, for an address of the heap or the one Alloc has just given
Store(h, p, node) == IF p = Len(h) + 1 THEN Append(h, node) ELSE [h EXCEPT ![p] = node]

\* the outcome of an operation: the heap, the root and whether it panicked
Ok(h, r) == [heap |-> h, root |-> r, abort |-> FALSE]

Abort(h, r) == [heap |-> h, root |-> r, abort |-> TRUE]

\* *slot = p
WriteSlot(h, r, s, p) ==
    IF s.n = NULL THEN Ok(h, p)
    ELSE Ok([h EXCEPT ![s.n].child_pointers[s.i] = p], r)

(***************************************************************************)
(* Insert                                                                  *)
(***************************************************************************)
\* the partial prefix as the slice partial[..partial_len] that prefix() takes
PartialSlice(n) == ArrSeq(n.partial, n.partial_len)

\* ArtNode::prefix: number of matched bytes with the node's partial
prefix(n, key) == common_prefix(PartialSlice(n), key)

\* `&self.info.partial[..self.info.partial_len]` is out of range
prefix_panics(n) == n.partial_len > MAX_PREFIX_LEN

\* split_check, the branch cm != partial_len: a new Node4 with the matched
\* part of the partial takes the place of the node, over the new leaf and
\* the node, whose partial keeps the bytes from cm on
split(h, r, key_bytes, depth, iter_node, new_leaf, parent_node, cm) ==
    LET n == h[iter_node]
        new_node == Node4_add(
                        Node4_add(Node4_new(ArrSeq(n.partial, cm)),
                                  new_leaf, At(key_bytes, depth + cm)),
                        iter_node, n.partial[cm])
        len == n.partial_len - cm
        old == [n EXCEPT !.partial_len = len,
                         !.partial = [i \in 0..(MAX_PREFIX_LEN - 1) |->
                                         IF i < len THEN n.partial[cm + i]
                                         ELSE n.partial[i]]]
        p == Alloc(h)
    IN  WriteSlot(Store([h EXCEPT ![iter_node] = old], p, new_node),
                  r, parent_node, p)

\* an expansion whose copy stops one child short (a length of count - 1)
grown_one_short(n) ==
    IF n.kind = "N4"
    THEN [new_with_info("N16", n) EXCEPT
             !.key = [j \in 0..15 |-> IF j < n.count - 1 THEN n.key[j] ELSE 0],
             !.child_pointers = [j \in 0..15 |->
                 IF j < n.count - 1 THEN n.child_pointers[j] ELSE NULL]]
    ELSE IF n.kind = "N16"
    THEN [new_with_info("N48", n) EXCEPT
             !.child_pointers = [j \in 0..47 |->
                 IF j < n.count - 1 THEN n.child_pointers[j] ELSE NULL],
             !.key = [b \in 0..255 |->
                 LET S == {i \in 0..(n.count - 2) : n.key[i] = b}
                 IN  IF S = {} THEN N48_ABSENT ELSE MaxOf(S)]]
    ELSE [new_with_info("N256", n) EXCEPT
             !.child_pointers = [b \in 0..255 |->
                 IF n.key[b] # N48_ABSENT /\ n.key[b] < n.count - 1
                 THEN n.child_pointers[n.key[b]]
                 ELSE NULL]]

\* the expand branches of Node4/Node16/Node48::insert: the next larger node
\* with the copied children, before the new leaf is added
grown(n) ==
    IF n.kind = "N4"
    THEN [new_with_info("N16", n) EXCEPT
             !.key = [j \in 0..15 |-> IF j < n.count THEN n.key[j] ELSE 0],
             !.child_pointers = [j \in 0..15 |->
                 IF j < n.count THEN n.child_pointers[j] ELSE NULL]]
    ELSE IF n.kind = "N16"
    THEN [new_with_info("N48", n) EXCEPT
             !.child_pointers = [j \in 0..47 |->
                 IF j < n.count THEN n.child_pointers[j] ELSE NULL],
             !.key = [b \in 0..255 |->
                 LET S == {i \in 0..(n.count - 1) : n.key[i] = b}
                 IN  IF S = {} THEN N48_ABSENT ELSE MaxOf(S)]]
    ELSE [new_with_info("N256", n) EXCEPT
             !.child_pointers = [b \in 0..255 |->
                 IF n.key[b] # N48_ABSENT THEN n.child_pointers[n.key[b]]
                 ELSE NULL]]

\* the heap between `Box::from_raw(*iter_node)` (`Box::from_raw(*parent_node)`
\* in delete_child) and the write of the new pointer into the slot, in the
\* expand branches of insert, the shrink branches of delete_child and the
\* merge of Node4::delete_child: the node the slot points to is freed
freed_old(h, r, parent_node) == Free(h, ReadSlot(h, r, parent_node))

\* the else branch of Node*::insert: no child for the byte; add the leaf to
\* the node, or to its expansion, which replaces the freed node
add_leaf(h, r, iter_node, new_leaf, parent_node, b) ==
    LET n == h[iter_node]
    IN  IF n.kind = "N256" \/ n.count < Cap(n.kind)
        THEN IF add_panics(n, b) THEN Abort(h, r)
             ELSE Ok([h EXCEPT ![iter_node] = add(n, new_leaf, b)], r)
        ELSE IF add_panics(grown(n), b) THEN Abort(h, r)
        ELSE LET new_node == add(grown(n), new_leaf, b)
                 h1 == Free(h, iter_node)
                 p == Alloc(h1)
             IN  WriteSlot(Store(h1, p, new_node), r, parent_node, p)

\* the Leaf arm of Art::insert: rewrite the value or split the leaf
insert_leaf(h, r, key_bytes, value, depth, iter_node, new_leaf, parent_node) ==
    LET node == h[iter_node]
    IN  IF depth > Len(node.key) \/ depth > Len(key_bytes) THEN Abort(h, r)
        ELSE LET cm == depth + common_prefix(Suffix(node.key, depth),
                                             Suffix(key_bytes, depth))
             IN  IF Len(key_bytes) = cm
                 THEN Ok([h EXCEPT ![iter_node].value = value], r)
                 ELSE IF cm >= Len(node.key) THEN Abort(h, r)
                 ELSE LET new_node ==
                              Node4_add(
                                  Node4_add(Node4_new(Slice(key_bytes, depth, cm)),
                                            new_leaf, At(key_bytes, cm)),
                                  iter_node, At(node.key, cm))
                          p == Alloc(h)
                      IN  WriteSlot(Store(h, p, new_node), r, parent_node, p)

\* the while loop of Art::insert; the ArtNode arm is Node*::insert with
\* split_check
RECURSIVE insert_loop(_, _, _, _, _, _, _, _)
insert_loop(h, r, key_bytes, value, depth, iter_node, new_leaf, parent_node) ==
    IF iter_node = NULL THEN Ok(h, r)
    ELSE IF ~Live(h, iter_node) THEN Abort(h, r)
    ELSE IF h[iter_node].kind = "Leaf"
    THEN insert_leaf(h, r, key_bytes, value, depth, iter_node, new_leaf, parent_node)
    ELSE LET n == h[iter_node]
         IN  IF depth > Len(key_bytes) \/ prefix_panics(n) THEN Abort(h, r)
             ELSE LET cm == prefix(n, Suffix(key_bytes, depth))
                  IN  IF cm # n.partial_len
                      THEN IF depth + cm >= Len(key_bytes) THEN Abort(h, r)
                           ELSE split(h, r, key_bytes, depth, iter_node,
                                      new_leaf, parent_node, cm)
                      ELSE LET d == depth + n.partial_len
                           IN  IF d >= Len(key_bytes) THEN Abort(h, r)
                               ELSE LET c == find_child(n, At(key_bytes, d))
                                    IN  IF c # -1
                                        THEN insert_loop(h, r, key_bytes, value, d,
                                                 n.child_pointers[c], new_leaf,
                                                 ChildSlot(iter_node, c))
                                        ELSE add_leaf(h, r, iter_node, new_leaf,
                                                 parent_node, At(key_bytes, d))

\* Art::insert
insert(h, r, key_bytes, value) ==
    IF r = NULL
    THEN LET p == Alloc(h)
         IN  Ok(Store(h, p, LeafNode_new(value, key_bytes)), p)
    ELSE LET new_leaf == Alloc(h)
         IN  insert_loop(Store(h, new_leaf, LeafNode_new(value, key_bytes)), r,
                         key_bytes, value, 0, r, new_leaf, RootSlot)

(***************************************************************************)
(* Delete                                                                  *)
(***************************************************************************)
\* ptr::copy(arr + position + 1, arr + position, count - 1 - position)
ShiftOut(arr, position, count) ==
    [j \in DOMAIN arr |->
        IF j >= position /\ j < count - 1 THEN arr[j + 1] ELSE arr[j]]

\* Node4::delete_child, the concatenation of the parent (self) and the only
\* child left when that child is an inner node: the child's new info
\* a merge that leaves the key byte out of the partial and of partial_len
merged_without_key_byte(self, child) ==
    LET p0 == Min(self.partial_len, MAX_PREFIX_LEN)
        sub_prefix == Min(child.partial_len, MAX_PREFIX_LEN - p0)
    IN  [child EXCEPT
            !.partial = [i \in 0..(MAX_PREFIX_LEN - 1) |->
                            IF i < p0 THEN self.partial[i]
                            ELSE IF i < p0 + sub_prefix THEN child.partial[i - p0]
                            ELSE child.partial[i]],
            !.partial_len = child.partial_len + self.partial_len]

merged(self, child) ==
    LET p0 == self.partial_len
        \* place key-byte to the end of the partial
        part1 == IF p0 < MAX_PREFIX_LEN
                 THEN [self.partial EXCEPT ![p0] = self.key[0]]
                 ELSE self.partial
        p1 == IF p0 < MAX_PREFIX_LEN THEN p0 + 1 ELSE p0
        \* the remaining prefix
        sub_prefix == IF p1 < MAX_PREFIX_LEN
                      THEN Min(child.partial_len, MAX_PREFIX_LEN - p1)
                      ELSE 0
        part2 == [i \in 0..(MAX_PREFIX_LEN - 1) |->
                     IF i >= p1 /\ i < p1 + sub_prefix
                     THEN child.partial[i - p1]
                     ELSE part1[i]]
        p2 == p1 + sub_prefix
        n == Min(p2, MAX_PREFIX_LEN)
    IN  [child EXCEPT
            !.partial = [i \in 0..(MAX_PREFIX_LEN - 1) |->
                            IF i < n THEN part2[i] ELSE child.partial[i]],
            !.partial_len = child.partial_len + self.partial_len + 1]

\* a delete_child that shifts the child out and leaves a node with one child
\* in place
Node4_delete_child_no_merge(h, r, parent_node, ref_node) ==
    LET id == ReadSlot(h, r, parent_node)
        self == h[id]
    IN  Ok([h EXCEPT ![id] =
               [self EXCEPT
                   !.key = ShiftOut(self.key, ref_node.i, self.count),
                   !.child_pointers =
                       ShiftOut(self.child_pointers, ref_node.i, self.count),
                   !.count = self.count - 1]], r)

Node4_delete_child(h, r, parent_node, ref_node) ==
    LET id == ReadSlot(h, r, parent_node)
        self == h[id]
        position == ref_node.i
        shifted == [self EXCEPT
                       !.key = ShiftOut(self.key, position, self.count),
                       !.child_pointers =
                           ShiftOut(self.child_pointers, position, self.count),
                       !.count = self.count - 1]
    IN  IF shifted.count = 1
        THEN LET node == shifted.child_pointers[0]
                 h1 == IF h[node].kind # "Leaf"
                       THEN [h EXCEPT ![node] = merged(shifted, h[node])]
                       ELSE h
             IN  WriteSlot(Free(h1, id), r, parent_node, node)
        ELSE Ok([h EXCEPT ![id] = shifted], r)

\* a delete_child that shrinks the Node16 at four children
Node16_delete_child_at_4(h, r, parent_node, ref_node) ==
    LET id == ReadSlot(h, r, parent_node)
        self == h[id]
        shifted == [self EXCEPT
                       !.key = ShiftOut(self.key, ref_node.i, self.count),
                       !.child_pointers =
                           ShiftOut(self.child_pointers, ref_node.i, self.count),
                       !.count = self.count - 1]
    IN  IF shifted.count = 4
        THEN LET new_node ==
                     [new_with_info("N4", shifted) EXCEPT
                         !.key = [j \in 0..3 |-> shifted.key[j]],
                         !.child_pointers =
                             [j \in 0..3 |-> shifted.child_pointers[j]]]
                 h1 == Free(h, id)
                 p == Alloc(h1)
             IN  WriteSlot(Store(h1, p, new_node), r, parent_node, p)
        ELSE Ok([h EXCEPT ![id] = shifted], r)

Node16_delete_child(h, r, parent_node, ref_node) ==
    LET id == ReadSlot(h, r, parent_node)
        self == h[id]
        position == ref_node.i
        shifted == [self EXCEPT
                       !.key = ShiftOut(self.key, position, self.count),
                       !.child_pointers =
                           ShiftOut(self.child_pointers, position, self.count),
                       !.count = self.count - 1]
    IN  IF shifted.count = 3
        THEN LET new_node ==
                     [new_with_info("N4", shifted) EXCEPT
                         !.key = [j \in 0..3 |-> shifted.key[j]],
                         !.child_pointers =
                             [j \in 0..3 |-> shifted.child_pointers[j]]]
                 h1 == Free(h, id)
                 p == Alloc(h1)
             IN  WriteSlot(Store(h1, p, new_node), r, parent_node, p)
        ELSE Ok([h EXCEPT ![id] = shifted], r)

\* the bytes of a Node48 that have a child, in ascending order
Node48_bytes(n) ==
    LET B == {b \in 0..255 : n.key[b] # N48_ABSENT}
        RECURSIVE Asc(_)
        Asc(S) == IF S = {} THEN << >>
                  ELSE << MinOf(S) >> \o Asc(S \ {MinOf(S)})
    IN  Asc(B)

\* a delete_child that leaves the byte's index in key
Node48_delete_child_keeps_key(h, r, parent_node, key) ==
    LET id == ReadSlot(h, r, parent_node)
        self == h[id]
        position == self.key[key]
    IN  IF position >= 48 THEN Abort(h, r)
        ELSE Ok([h EXCEPT ![id] = [self EXCEPT !.child_pointers[position] = NULL,
                                               !.count = self.count - 1]], r)

\* a delete_child that shrinks the Node48 as soon as a Node16 can hold its
\* children
Node48_delete_child_at_16(h, r, parent_node, key) ==
    LET id == ReadSlot(h, r, parent_node)
        self == h[id]
        position == self.key[key]
        cleared == [self EXCEPT !.key[key] = N48_ABSENT,
                                !.child_pointers[position] = NULL,
                                !.count = self.count - 1]
    IN  IF position >= 48 THEN Abort(h, r)
        ELSE IF cleared.count = 16
        THEN LET bs == Node48_bytes(cleared)
                 new_node ==
                     [new_with_info("N16", cleared) EXCEPT
                         !.key = [j \in 0..15 |->
                             IF j < Len(bs) THEN bs[j + 1] ELSE 0],
                         !.child_pointers = [j \in 0..15 |->
                             IF j < Len(bs)
                             THEN cleared.child_pointers[cleared.key[bs[j + 1]]]
                             ELSE NULL]]
                 h1 == Free(h, id)
                 p == Alloc(h1)
             IN  WriteSlot(Store(h1, p, new_node), r, parent_node, p)
        ELSE Ok([h EXCEPT ![id] = cleared], r)

Node48_delete_child(h, r, parent_node, key) ==
    LET id == ReadSlot(h, r, parent_node)
        self == h[id]
        position == self.key[key]
        cleared == [self EXCEPT !.key[key] = N48_ABSENT,
                                !.child_pointers[position] = NULL,
                                !.count = self.count - 1]
    IN  IF cleared.count = 12
        THEN LET bs == Node48_bytes(cleared)
                 new_node ==
                     [new_with_info("N16", cleared) EXCEPT
                         !.key = [j \in 0..15 |->
                             IF j < Len(bs) THEN bs[j + 1] ELSE 0],
                         !.child_pointers = [j \in 0..15 |->
                             IF j < Len(bs)
                             THEN cleared.child_pointers[cleared.key[bs[j + 1]]]
                             ELSE NULL]]
                 h1 == Free(h, id)
                 p == Alloc(h1)
             IN  IF position >= 48 \/ Len(bs) > 16 THEN Abort(h, r)
                 ELSE WriteSlot(Store(h1, p, new_node), r, parent_node, p)
        ELSE IF position >= 48 THEN Abort(h, r)
        ELSE Ok([h EXCEPT ![id] = cleared], r)

\* a delete_child that clears the byte's child and never shrinks the node
Node256_delete_child_no_shrink(h, r, parent_node, key) ==
    LET id == ReadSlot(h, r, parent_node)
    IN  Ok([h EXCEPT ![id] = [h[id] EXCEPT !.child_pointers[key] = NULL,
                                           !.count = h[id].count - 1]], r)

Node256_delete_child(h, r, parent_node, key) ==
    LET id == ReadSlot(h, r, parent_node)
        self == h[id]
        cleared == [self EXCEPT !.child_pointers[key] = NULL,
                                !.count = self.count - 1]
    IN  IF cleared.count = 35
        THEN LET B == {b \in 0..255 : cleared.child_pointers[b] # NULL}
                 \* the position the loop has reached at byte b
                 pos(b) == Cardinality({x \in B : x < b})
                 new_node ==
                     [new_with_info("N48", cleared) EXCEPT
                         !.key = [b \in 0..255 |->
                             IF b \in B THEN pos(b) ELSE N48_ABSENT],
                         !.child_pointers = [j \in 0..47 |->
                             IF \E b \in B : pos(b) = j
                             THEN cleared.child_pointers[
                                      CHOOSE b \in B : pos(b) = j]
                             ELSE NULL]]
                 h1 == Free(h, id)
                 p == Alloc(h1)
             IN  IF Cardinality(B) > 48 THEN Abort(h, r)
                 ELSE WriteSlot(Store(h1, p, new_node), r, parent_node, p)
        ELSE Ok([h EXCEPT ![id] = cleared], r)

delete_child(h, r, parent_node, ref_node, key) ==
    LET kind == h[ReadSlot(h, r, parent_node)].kind
    IN  IF kind = "N4" THEN Node4_delete_child(h, r, parent_node, ref_node)
        ELSE IF kind = "N16" THEN Node16_delete_child(h, r, parent_node, ref_node)
        ELSE IF kind = "N48" THEN Node48_delete_child(h, r, parent_node, key)
        ELSE Node256_delete_child(h, r, parent_node, key)

\* the Leaf arm of Art::delete
delete_leaf(h, r, key_bytes, depth, iter_node, parent_node, ref_node, key) ==
    LET node == h[iter_node]
    IN  IF depth > Len(node.key) \/ depth > Len(key_bytes) THEN Abort(h, r)
        ELSE LET d == depth + common_prefix(Suffix(node.key, depth),
                                            Suffix(key_bytes, depth))
             IN  IF d = Len(node.key)
                 THEN LET res == IF h[ReadSlot(h, r, parent_node)].kind # "Leaf"
                                 THEN delete_child(h, r, parent_node, ref_node, key)
                                 ELSE WriteSlot(h, r, ref_node, NULL)
                      IN  IF res.abort THEN res
                          ELSE Ok(Free(res.heap, iter_node), res.root)
                 ELSE Ok(h, r)

\* the while loop of Art::delete
RECURSIVE delete_loop(_, _, _, _, _, _, _, _)
delete_loop(h, r, key_bytes, depth, iter_node, parent_node, ref_node, key) ==
    IF iter_node = NULL THEN Ok(h, r)
    ELSE IF ~Live(h, iter_node) THEN Abort(h, r)
    ELSE IF h[iter_node].kind = "Leaf"
    THEN delete_leaf(h, r, key_bytes, depth, iter_node, parent_node, ref_node, key)
    ELSE LET node == h[iter_node]
         IN  IF depth > Len(key_bytes) \/ prefix_panics(node) THEN Abort(h, r)
             ELSE LET d0 == depth + prefix(node, Suffix(key_bytes, depth))
                      \* In this case we want last element
                      d == IF d0 = Len(key_bytes) THEN d0 - 1 ELSE d0
                  IN  IF d < 0 THEN Abort(h, r)
                      ELSE LET c == find_child(node, At(key_bytes, d))
                           IN  IF c # -1
                               THEN delete_loop(h, r, key_bytes, d,
                                        node.child_pointers[c], ref_node,
                                        ChildSlot(iter_node, c), At(key_bytes, d))
                               ELSE Ok(h, r)

\* Art::delete
delete(h, r, key_bytes) ==
    delete_loop(h, r, key_bytes, 0, r, RootSlot, RootSlot, 0)

(***************************************************************************)
(* Find and bfs_count                                                      *)
(***************************************************************************)
\* the while loop of Art::find: the address of the leaf whose value is
\* returned, None or Panic
RECURSIVE find_loop(_, _, _, _)
find_loop(h, key_bytes, depth, iter_node) ==
    IF iter_node = NULL THEN None
    ELSE IF ~Live(h, iter_node) THEN Panic
    ELSE LET node == h[iter_node]
         IN  IF node.kind = "Leaf"
             THEN IF depth > Len(node.key) \/ depth > Len(key_bytes) THEN Panic
                  ELSE IF depth + common_prefix(Suffix(node.key, depth),
                                                Suffix(key_bytes, depth))
                          = Len(node.key)
                  THEN iter_node
                  ELSE None
             ELSE IF depth > Len(key_bytes) \/ prefix_panics(node) THEN Panic
             ELSE LET d0 == depth + prefix(node, Suffix(key_bytes, depth))
                      d == IF d0 = Len(key_bytes) THEN d0 - 1 ELSE d0
                  IN  IF d < 0 THEN Panic
                      ELSE LET c == find_child(node, At(key_bytes, d))
                           IN  IF c # -1
                               THEN find_loop(h, key_bytes, d, node.child_pointers[c])
                               ELSE None

\* Art::find: the value, None or Panic
find(h, r, key_bytes) ==
    LET leaf == find_loop(h, key_bytes, 0, r)
    IN  IF leaf = None \/ leaf = Panic THEN leaf ELSE h[leaf].value

\* the queue loop of bfs_count; -1 when it follows a pointer to no node
RECURSIVE bfs_loop(_, _, _)
bfs_loop(h, queue, count) ==
    IF queue = << >> THEN count
    ELSE LET node == Head(queue)
         IN  IF ~Live(h, node) THEN Panic
             ELSE IF h[node].kind = "Leaf"
             THEN bfs_loop(h, Tail(queue), count + 1)
             ELSE bfs_loop(h,
                      Tail(queue) \o ArrSeq(h[node].child_pointers, h[node].count),
                      count + 1)

\* Count a number of nodes in the tree
bfs_count(h, r) == IF r = NULL THEN 0 ELSE bfs_loop(h, << r >>, 0)

\* Free all tree recursive.  The result is the heap and whether the walk
\* reached an address whose node was no longer allocated: a leaf freed by
\* delete, or a node this walk has already freed
RECURSIVE free_tree(_, _)
RECURSIVE free_children(_, _, _)
free_children(res, ptrs, i) ==
    IF i > Len(ptrs) THEN res
    ELSE LET sub == free_tree(res.heap, ptrs[i])
         IN  free_children([heap |-> sub.heap,
                            freed_twice |-> res.freed_twice \/ sub.freed_twice],
                           ptrs, i + 1)

free_tree(h, node) ==
    IF node = NULL THEN [heap |-> h, freed_twice |-> FALSE]
    ELSE IF ~Live(h, node) THEN [heap |-> h, freed_twice |-> TRUE]
    ELSE IF h[node].kind = "Leaf"
    THEN [heap |-> Free(h, node), freed_twice |-> FALSE]
    ELSE LET res == free_children(
                        [heap |-> h, freed_twice |-> FALSE],
                        ArrSeq(h[node].child_pointers, Cap(h[node].kind)), 1)
         IN  [heap |-> IF Live(res.heap, node) THEN Free(res.heap, node)
                       ELSE res.heap,
              freed_twice |-> res.freed_twice \/ ~Live(res.heap, node)]

(***************************************************************************)
(* Addresses are only ever compared with each other, so between calls the  *)
(* heap is kept up to a renaming of addresses: the allocated nodes are     *)
(* numbered in the order of a walk from the root, the nodes no pointer     *)
(* leads to after them, and a pointer to a freed node becomes DANGLING.    *)
(***************************************************************************)
Range(s) == {s[i] : i \in DOMAIN s}

RECURSIVE Walk(_, _, _)
Walk(h, todo, acc) ==
    IF todo = << >> THEN acc
    ELSE LET p == Head(todo)
         IN  IF ~Live(h, p) \/ p \in Range(acc) THEN Walk(h, Tail(todo), acc)
             ELSE IF h[p].kind = "Leaf" THEN Walk(h, Tail(todo), Append(acc, p))
             ELSE Walk(h,
                       ArrSeq(h[p].child_pointers, Cap(h[p].kind)) \o Tail(todo),
                       Append(acc, p))

RECURSIVE LexLess(_, _)
LexLess(s, t) ==
    IF s = << >> THEN t # << >>
    ELSE IF t = << >> THEN FALSE
    ELSE IF Head(s) # Head(t) THEN Head(s) < Head(t)
    ELSE LexLess(Tail(s), Tail(t))

\* an order of the nodes no pointer leads to: leaves by key and value
Before(h, p, q) ==
    IF h[p].kind = "Leaf" /\ h[q].kind = "Leaf"
    THEN IF h[p].key # h[q].key THEN LexLess(h[p].key, h[q].key)
         ELSE IF h[p].value # h[q].value THEN h[p].value < h[q].value
         ELSE p < q
    ELSE IF h[p].kind = "Leaf" THEN TRUE
    ELSE IF h[q].kind = "Leaf" THEN FALSE
    ELSE p < q

RECURSIVE Sorted(_, _)
Sorted(h, S) ==
    IF S = {} THEN << >>
    ELSE LET p == CHOOSE x \in S : \A y \in S \ {x} : Before(h, x, y)
         IN  << p >> \o Sorted(h, S \ {p})

Canon(h, r) ==
    LET reached == Walk(h, << r >>, << >>)
        rest == {p \in DOMAIN h : Live(h, p)} \ Range(reached)
        order == reached \o Sorted(h, rest)
        ren(p) == IF p = NULL THEN NULL
                  ELSE IF ~Live(h, p) THEN DANGLING
                  ELSE CHOOSE i \in DOMAIN order : order[i] = p
        node(i) == LET n == h[order[i]]
                   IN  IF n.kind = "Leaf" THEN n
                       ELSE [n EXCEPT !.child_pointers =
                                [j \in DOMAIN n.child_pointers |->
                                    ren(n.child_pointers[j])]]
    IN  [heap |-> [i \in DOMAIN order |-> node(i)], root |-> ren(r)]


(***************************************************************************)
(* RadixTree of src/src/radix.rs.  An arena is its Vec `arr` and the list  *)
(* `arr_idx` of the indices given back; indices are 0-based as in the code *)
(* and read through At.  A key and a label are sequences of characters.    *)
(***************************************************************************)
Edge_new(target_node, label) == [target_node |-> target_node, label |-> label]

\* Node::new of radix.rs
RNode_new(value) == [edges |-> << >>, value |-> value, is_leaf |-> TRUE]

Arena_new == [arr |-> << >>, arr_idx |-> << >>]

\* Arena::insert: the arena and the index of the value
Arena_insert(a, val) ==
    IF a.arr_idx = << >>
    THEN [arena |-> [a EXCEPT !.arr = Append(a.arr, val)], idx |-> Len(a.arr)]
    ELSE [arena |-> [arr |-> [a.arr EXCEPT ![a.arr_idx[1] + 1] = val],
                     arr_idx |-> Tail(a.arr_idx)],
          idx |-> a.arr_idx[1]]

\* Arena::delete
Arena_delete(a, idx) == [a EXCEPT !.arr_idx = Append(a.arr_idx, idx)]

RadixTree_new ==
    LET zero_node == [RNode_new(Default) EXCEPT !.is_leaf = FALSE]
        n == Arena_insert(Arena_new, zero_node)
        e == Arena_insert(Arena_new, Edge_new(n.idx, << >>))
    IN  [nodes |-> n.arena, edges |-> e.arena]

\* RadixTree::common_prefix: the length of the common prefix; 0 is None
RadixTree_common_prefix(first_str, second_str) ==
    common_prefix(first_str, second_str)

\* a starts_with that compares the first character only
starts_with_first(str, pat) ==
    Len(pat) <= Len(str) /\ (pat # << >> => str[1] = pat[1])

\* str::starts_with
starts_with(str, pat) ==
    Len(pat) <= Len(str) /\ SubSeq(str, 1, Len(pat)) = pat

\* lookup, the lazy prefix compression of the edge e_idx
compress(rt, e_idx) ==
    LET target_node_idx == At(rt.edges.arr, e_idx).target_node
    IN  IF Len(At(rt.nodes.arr, target_node_idx).edges) = 1
        THEN LET compressed_edge == At(rt.nodes.arr, target_node_idx).edges[1]
                 label == At(rt.edges.arr, compressed_edge).label
                 arr1 == [rt.edges.arr EXCEPT ![e_idx + 1].label = @ \o label]
                 arr2 == [arr1 EXCEPT ![e_idx + 1].target_node =
                                          At(arr1, compressed_edge).target_node]
             IN  [nodes |-> Arena_delete(rt.nodes, target_node_idx),
                  edges |-> Arena_delete([rt.edges EXCEPT !.arr = arr2],
                                         compressed_edge)]
        ELSE rt

\* lookup, the for loop over the edges of the node, from the i-th on
RECURSIVE lookup_edges(_, _, _, _, _, _)
lookup_edges(rt, key, count, idx, es, i) ==
    IF i > Len(es)
    THEN [rt |-> rt, count |-> count, idx |-> idx, found |-> FALSE]
    ELSE LET e_idx == es[i]
             rt1 == compress(rt, e_idx)
             label == At(rt1.edges.arr, e_idx).label
             rest == Suffix(key, count)
         IN  IF label # << >> /\ starts_with(rest, label)
             THEN [rt |-> rt1, count |-> count + Len(label), idx |-> e_idx,
                   found |-> TRUE]
             ELSE IF RadixTree_common_prefix(rest, label) > 0
             THEN [rt |-> rt1, count |-> count + Len(key), idx |-> e_idx,
                   found |-> FALSE]
             ELSE IF label = << >> /\ count = Len(key)
             THEN [rt |-> rt1, count |-> count, idx |-> e_idx, found |-> TRUE]
             ELSE lookup_edges(rt1, key, count, idx, es, i + 1)

\* lookup, the variables of the while loop after an iteration whose for loop
\* gave r: `if found { prev_node_idx = node_idx; node_idx = ..target_node }`
lookup_next(r, node_idx, prev_node_idx) ==
    [rt |-> r.rt, idx |-> r.idx, count |-> r.count, found |-> r.found,
     node_idx |-> IF r.found THEN At(r.rt.edges.arr, r.idx).target_node
                  ELSE node_idx,
     prev_node_idx |-> IF r.found THEN node_idx ELSE prev_node_idx]

\* lookup, the while loop over its variables st; steps is the number of
\* iterations left before the loop is taken not to end
RECURSIVE lookup_loop(_, _, _)
lookup_loop(st, key, steps) ==
    IF st.found /\ ~At(st.rt.nodes.arr, st.node_idx).is_leaf /\ st.count <= Len(key)
    THEN IF steps = 0
         THEN [rt |-> st.rt, exists |-> FALSE, count |-> st.count, idx |-> st.idx,
               prev_node_idx |-> st.prev_node_idx, hangs |-> TRUE]
         ELSE lookup_loop(
                  lookup_next(
                      lookup_edges(st.rt, key, st.count, st.idx,
                                   At(st.rt.nodes.arr, st.node_idx).edges, 1),
                      st.node_idx, st.prev_node_idx),
                  key, steps - 1)
    ELSE [rt |-> st.rt,
          exists |-> At(st.rt.nodes.arr, st.node_idx).is_leaf /\ st.count = Len(key),
          count |-> st.count, idx |-> st.idx,
          prev_node_idx |-> st.prev_node_idx, hangs |-> FALSE]

\* RadixTree::lookup
RadixTree_lookup(rt, key) ==
    lookup_loop([rt |-> rt, idx |-> 0, node_idx |-> 0, prev_node_idx |-> 0,
                 count |-> 0, found |-> TRUE],
                key, Len(rt.nodes.arr) + Len(key) + 2)

\* RadixTree::find after its lookup gave l
find_found(l) ==
    [rt |-> l.rt,
     value |-> IF l.hangs THEN Panic
               ELSE IF l.exists
               THEN At(l.rt.nodes.arr, At(l.rt.edges.arr, l.idx).target_node).value
               ELSE None]

\* RadixTree::find: the tree lookup leaves, and the value, None or Panic
RadixTree_find(rt, key) == find_found(RadixTree_lookup(rt, key))

\* RadixTree::insert, the case when we have to add new node with suffix
insert_suffix(rt, key, val, count, target_node_idx) ==
    LET n1 == Arena_insert(rt.nodes, RNode_new(val))
        e1 == Arena_insert(rt.edges, Edge_new(n1.idx, Suffix(key, count)))
        target == At(n1.arena.arr, target_node_idx)
    IN  IF target.is_leaf
        THEN LET n2 == Arena_insert(n1.arena, RNode_new(target.value))
                 arrv == [n2.arena.arr EXCEPT ![target_node_idx + 1].value = Default]
                 e2 == Arena_insert(e1.arena, Edge_new(n2.idx, << >>))
                 arre == [arrv EXCEPT ![target_node_idx + 1].edges =
                                          Append(Append(@, e2.idx), e1.idx),
                                      ![target_node_idx + 1].is_leaf = FALSE]
             IN  [nodes |-> [n2.arena EXCEPT !.arr = arre], edges |-> e2.arena]
        ELSE [nodes |-> [n1.arena EXCEPT !.arr =
                            [@ EXCEPT ![target_node_idx + 1].edges = Append(@, e1.idx),
                                      ![target_node_idx + 1].is_leaf = FALSE]],
              edges |-> e1.arena]

\* RadixTree::insert, the case when we have to split node using common
\* prefix (prefix_count > 0)
insert_split(rt, key, val, count, prefix_count, idx, target_node_idx) ==
    LET label == At(rt.edges.arr, idx).label
        arr1 == [rt.edges.arr EXCEPT ![idx + 1].label =
                                        Slice(key, count, count + prefix_count)]
        edge_left == Arena_insert([rt.edges EXCEPT !.arr = arr1],
                                  Edge_new(target_node_idx, Suffix(label, prefix_count)))
        new_node == Arena_insert(rt.nodes, RNode_new(val))
        edge_right == Arena_insert(edge_left.arena,
                                   Edge_new(new_node.idx,
                                            Suffix(key, count + prefix_count)))
        split_node == [edges |-> << edge_left.idx, edge_right.idx >>,
                       value |-> Default, is_leaf |-> FALSE]
        split_node_idx == Arena_insert(new_node.arena, split_node)
    IN  [nodes |-> split_node_idx.arena,
         edges |-> [edge_right.arena EXCEPT
                       !.arr = [@ EXCEPT ![idx + 1].target_node = split_node_idx.idx]]]

\* RadixTree::insert after its lookup gave l
insert_found(l, key, val) ==
    LET target_node_idx == At(l.rt.edges.arr, l.idx).target_node
    IN  IF l.hangs THEN [rt |-> l.rt, abort |-> TRUE]
        ELSE IF l.exists THEN [rt |-> l.rt, abort |-> FALSE]
        ELSE IF l.count < Len(key)
        THEN [rt |-> insert_suffix(l.rt, key, val, l.count, target_node_idx),
              abort |-> FALSE]
        ELSE LET count == l.count - Len(key)
                 prefix_count == RadixTree_common_prefix(
                                     Suffix(key, count), At(l.rt.edges.arr, l.idx).label)
             IN  \* unwrap() of None
                 IF prefix_count = 0 THEN [rt |-> l.rt, abort |-> TRUE]
                 ELSE [rt |-> insert_split(l.rt, key, val, count, prefix_count,
                                           l.idx, target_node_idx),
                       abort |-> FALSE]

\* RadixTree::insert: the tree, and whether the call panicked or did not end
RadixTree_insert(rt, key, val) ==
    insert_found(RadixTree_lookup(rt, key), key, val)

\* RadixTree::delete after its lookup gave l
delete_found(l) ==
    IF l.hangs THEN [rt |-> l.rt, abort |-> TRUE]
    ELSE IF l.exists
    THEN LET target_node_idx == At(l.rt.edges.arr, l.idx).target_node
             nodes1 == Arena_delete(l.rt.nodes, target_node_idx)
             kept == SelectSeq(At(nodes1.arr, l.prev_node_idx).edges,
                               LAMBDA x : x # l.idx)
         IN  [rt |-> [nodes |-> [nodes1 EXCEPT
                                    !.arr = [@ EXCEPT ![l.prev_node_idx + 1].edges = kept]],
                      edges |-> Arena_delete(l.rt.edges, l.idx)],
              abort |-> FALSE]
    ELSE [rt |-> l.rt, abort |-> FALSE]

\* RadixTree::delete
RadixTree_delete(rt, key) == delete_found(RadixTree_lookup(rt, key))

(***************************************************************************)
(* TrieNode of src/src/trie.rs.  The HashMap `next` is a function from the *)
(* items that have an entry to the TrieNode of the entry; the iterator     *)
(* `s` is the sequence of the items it yields.                             *)
(***************************************************************************)
TrieNode_new == [next |-> << >>, end |-> FALSE]

\* n.next.entry(c).or_insert(TrieNode::new()): the node of the entry
entry_or_insert(n, c) ==
    IF c \in DOMAIN n.next THEN n.next[c] ELSE TrieNode_new

\* TrieNode::add from node n on with the items s still to come: the loop
\* ends when s is exhausted or at a node whose end is set, and the node it
\* ends at gets end = true
RECURSIVE TrieNode_add(_, _)
TrieNode_add(n, s) ==
    IF s = << >> \/ n.end
    THEN [n EXCEPT !.end = TRUE]
    ELSE [n EXCEPT !.next =
             (Head(s) :> TrieNode_add(entry_or_insert(n, Head(s)), Tail(s))) @@ n.next]

\* TrieNode::find
RECURSIVE TrieNode_find(_, _)
TrieNode_find(n, s) ==
    IF s = << >> THEN n.end
    ELSE IF Head(s) \in DOMAIN n.next
    THEN TrieNode_find(n.next[Head(s)], Tail(s))
    ELSE FALSE

(***************************************************************************)
(* The state machine: a tree handle Art<K, T> and the calls on it.         *)
(* ktype is the key type K.  stored, phase and calls record the calls made *)
(* so far, as the caller knows them: stored is the map the tests keep in   *)
(* `data` (the last value inserted for each key not deleted since); phase  *)
(* is "fill" while every call was an insert of a key not yet stored,       *)
(* "inserts" while every call was an insert, "drain" when a fill was       *)
(* followed only by deletes of stored keys, and "mixed" otherwise.         *)
(***************************************************************************)
\* u32 keys whose big-endian bytes are 0, a, b, c with a, b, c in 0..MaxByte
KeysU32 ==
    {a * 65536 + b * 256 + c : a \in 0..MaxByte, b \in 0..MaxByte, c \in 0..MaxByte}

\* u128 keys 0..MaxWide
KeysU128 == 0..MaxWide

\* String keys of 1..MaxStrLen characters 'a' (97) and 'b' (98)
KeysString == UNION {[1..n -> {97, 98}] : n \in 1..MaxStrLen}

\* u16 keys of the calls that follow the ascending inserts: two of the keys
\* inserted first, two keys whose last byte is above 127, and a key with
\* another first byte
KeysU16 == {0, 1, 200, 201, 256}

\* i16 keys around zero
KeysI16 == (0 - MaxSigned)..(MaxSigned - 1)

Keys(kt) ==
    IF kt = "u32" THEN KeysU32
    ELSE IF kt = "u128" THEN KeysU128
    ELSE IF kt = "u16" THEN KeysU16
    ELSE IF kt \in {"i16", "i128"} THEN KeysI16
    ELSE KeysString

\* the bounds on the calls and on the heap for a tree of the key type
MaxCallsOf(kt) == IF kt = "u16" THEN MaxFanCalls ELSE MaxCalls

MaxNodesOf(kt) == IF kt = "u16" THEN MaxFill + MaxNodes ELSE MaxNodes

\* Art::new
New(kt) ==
    /\ ktype = kt
    /\ root = NULL
    /\ heap = << >>
    /\ aborted = FALSE
    /\ stored = << >>
    /\ phase = "fill"
    /\ calls = 0
    /\ radix = RadixTree_new
    /\ trie = TrieNode_new

Init == New("u32")

InitWide == New("u128")

InitStr == New("String")

InitFan == New("u16")

InitSigned == New("i16")

InitSignedWide == New("i128")

Put(f, k, v) == [x \in (DOMAIN f) \cup {k} |-> IF x = k THEN v ELSE f[x]]

Drop(f, k) == [x \in (DOMAIN f) \ {k} |-> f[x]]

Insert(k, v) ==
    /\ ~aborted
    /\ calls < MaxCallsOf(ktype)
    /\ calls' = calls + 1
    /\ Len(heap) + 2 <= MaxNodesOf(ktype)
    /\ LET res == insert(heap, root, bytes(ktype, k), v)
       IN  IF res.abort
           THEN /\ aborted' = TRUE
                /\ UNCHANGED <<root, heap, stored>>
           ELSE /\ heap' = Canon(res.heap, res.root).heap
                /\ root' = Canon(res.heap, res.root).root
                /\ stored' = Put(stored, k, v)
                /\ UNCHANGED aborted
    /\ phase' = IF phase = "fill" /\ k \notin DOMAIN stored THEN "fill"
                 ELSE IF phase \in {"fill", "inserts"} THEN "inserts"
                 ELSE "mixed"
    /\ UNCHANGED <<ktype, radix, trie>>

Delete(k) ==
    /\ ~aborted
    /\ calls < MaxCallsOf(ktype)
    /\ calls' = calls + 1
    /\ LET res == delete(heap, root, bytes(ktype, k))
       IN  IF res.abort
           THEN /\ aborted' = TRUE
                /\ UNCHANGED <<root, heap, stored>>
           ELSE /\ heap' = Canon(res.heap, res.root).heap
                /\ root' = Canon(res.heap, res.root).root
                /\ stored' = Drop(stored, k)
                /\ UNCHANGED aborted
    /\ phase' = IF phase \in {"fill", "drain"} /\ k \in DOMAIN stored THEN "drain"
                 ELSE "mixed"
    /\ UNCHANGED <<ktype, radix, trie>>

\* the loop of the tests that inserts the data, for u16 keys below 256 taken
\* in ascending order: the next key of 0..MaxFill-1, before any other call
Fill ==
    /\ ~aborted
    /\ phase = "fill"
    /\ calls = 0
    /\ Cardinality(DOMAIN stored) < MaxFill
    /\ LET k == Cardinality(DOMAIN stored)
           res == insert(heap, root, bytes(ktype, k), 1)
       IN  IF res.abort
           THEN /\ aborted' = TRUE
                /\ UNCHANGED <<root, heap, stored>>
           ELSE /\ heap' = Canon(res.heap, res.root).heap
                /\ root' = Canon(res.heap, res.root).root
                /\ stored' = Put(stored, k, 1)
                /\ UNCHANGED aborted
    /\ UNCHANGED <<ktype, phase, calls, radix, trie>>

\* the least key stored
MinStored == CHOOSE k \in DOMAIN stored : \A x \in DOMAIN stored : k <= x

\* the loop of the tests that deletes the data again, once MaxFill keys are
\* in: the least key stored, before any other call
Drain ==
    /\ ~aborted
    /\ calls = 0
    /\ \/ phase = "fill" /\ Cardinality(DOMAIN stored) = MaxFill
       \/ phase = "drain"
    /\ DOMAIN stored # {}
    /\ LET k == MinStored
           res == delete(heap, root, bytes(ktype, k))
       IN  IF res.abort
           THEN /\ aborted' = TRUE
                /\ UNCHANGED <<root, heap, stored>>
           ELSE /\ heap' = Canon(res.heap, res.root).heap
                /\ root' = Canon(res.heap, res.root).root
                /\ stored' = Drop(stored, k)
                /\ UNCHANGED aborted
    /\ phase' = "drain"
    /\ UNCHANGED <<ktype, calls, radix, trie>>

Next ==
    \/ \E k \in Keys(ktype), v \in Values : Insert(k, v)
    \/ \E k \in Keys(ktype) : Delete(k)

NextFan ==
    \/ Fill
    \/ Drain
    \/ \E k \in Keys(ktype), v \in Values : Insert(k, v)
    \/ \E k \in Keys(ktype) : Delete(k)

Spec == Init /\ [][Next]_vars

SpecWide == InitWide /\ [][Next]_vars

SpecStr == InitStr /\ [][Next]_vars

\* a tree of u16 keys below 256: a root node with a partial of one byte over
\* leaves, of every node type
SpecFan == InitFan /\ [][NextFan]_vars

\* a tree of signed keys
SpecSigned == InitSigned /\ [][Next]_vars

\* a tree of signed keys of 16 bytes: the keys below zero share 15 bytes 0xFF
\* and differ from the keys from zero on in the first byte
SpecSignedWide == InitSignedWide /\ [][Next]_vars

(***************************************************************************)
(* The calls on a RadixTree<u32>; stored, phase and calls record them as   *)
(* for Art.                                                                *)
(***************************************************************************)
\* keys of 1..MaxRadixLen characters 'a' (97) and 'b' (98)
KeysRadix == UNION {[1..n -> {97, 98}] : n \in 1..MaxRadixLen}

RInsert(k, v) ==
    /\ ~aborted
    /\ calls < MaxRadixCalls
    /\ calls' = calls + 1
    /\ LET res == RadixTree_insert(radix, k, v)
       IN  IF res.abort
           THEN /\ aborted' = TRUE
                /\ UNCHANGED <<radix, stored>>
           ELSE /\ radix' = res.rt
                /\ stored' = Put(stored, k, v)
                /\ UNCHANGED aborted
    /\ phase' = IF phase = "fill" /\ k \notin DOMAIN stored THEN "fill"
                 ELSE IF phase \in {"fill", "inserts"} THEN "inserts"
                 ELSE "mixed"
    /\ UNCHANGED <<ktype, root, heap, trie>>

RFind(k) ==
    /\ ~aborted
    /\ calls < MaxRadixCalls
    /\ calls' = calls + 1
    /\ LET res == RadixTree_find(radix, k)
       IN  IF res.value = Panic
           THEN /\ aborted' = TRUE
                /\ UNCHANGED radix
           ELSE /\ radix' = res.rt
                /\ UNCHANGED aborted
    /\ UNCHANGED <<ktype, root, heap, stored, phase, trie>>

RDelete(k) ==
    /\ ~aborted
    /\ calls < MaxRadixCalls
    /\ calls' = calls + 1
    /\ LET res == RadixTree_delete(radix, k)
       IN  IF res.abort
           THEN /\ aborted' = TRUE
                /\ UNCHANGED <<radix, stored>>
           ELSE /\ radix' = res.rt
                /\ stored' = Drop(stored, k)
                /\ UNCHANGED aborted
    /\ phase' = IF phase \in {"fill", "drain"} /\ k \in DOMAIN stored THEN "drain"
                 ELSE "mixed"
    /\ UNCHANGED <<ktype, root, heap, trie>>

NextRadix ==
    \/ \E k \in KeysRadix, v \in Values : RInsert(k, v)
    \/ \E k \in KeysRadix : RFind(k)
    \/ \E k \in KeysRadix : RDelete(k)

SpecRadix == InitStr /\ [][NextRadix]_vars

(***************************************************************************)
(* The calls on a TrieNode<char>; stored is the set of the sequences       *)
(* added, as the domain of a map to TRUE.                                  *)
(***************************************************************************)
\* sequences of 0..MaxTrieLen items 'a' (97) and 'b' (98)
SeqsTrie == UNION {[1..n -> {97, 98}] : n \in 0..MaxTrieLen}

TAdd(s) ==
    /\ calls < MaxTrieCalls
    /\ calls' = calls + 1
    /\ trie' = TrieNode_add(trie, s)
    /\ stored' = Put(stored, s, TRUE)
    /\ UNCHANGED <<ktype, root, heap, aborted, phase, radix>>

\* find takes &self: the trie is left as it is
TFind(s) ==
    /\ calls < MaxTrieCalls
    /\ calls' = calls + 1
    /\ TrieNode_find(trie, s) \in BOOLEAN
    /\ UNCHANGED <<ktype, root, heap, aborted, stored, phase, radix, trie>>

NextTrie ==
    \/ \E s \in SeqsTrie : TAdd(s)
    \/ \E s \in SeqsTrie : TFind(s)

InitTrie == New("String")

SpecTrie == InitTrie /\ [][NextTrie]_vars

(***************************************************************************)
(* Properties                                                              *)
(***************************************************************************)
KB(k) == bytes(ktype, k)

Found(k) == find(heap, root, KB(k))

StoredKeys == DOMAIN stored

\* the tree was built by inserts alone
InsertsOnly == phase \in {"fill", "inserts"}

\* find as answered by the tree an operation has returned
FoundIn(res, k) == find(res.heap, res.root, KB(k))

CountIn(res) == bfs_count(res.heap, res.root)

\* C1: after inserting (k, v) pairs with pairwise distinct keys into an
\* empty tree, in any order and with no delete, find(k) returns v for every
\* inserted k.
C1_InsertFindRoundTrip ==
    (phase = "fill" /\ ~aborted) =>
        \A k \in StoredKeys : Found(k) = stored[k]

\* C2: in a tree built by inserts, find(q) returns None for every key q
\* that is not stored.
C2_AbsentKeyNotFound ==
    (InsertsOnly /\ ~aborted) =>
        \A q \in Keys(ktype) \ StoredKeys : Found(q) = None

\* C3: in a tree built by inserts, delete(q) of a key q that is not stored
\* removes nothing: every stored key is still found with its value and the
\* number of nodes is unchanged.
C3_DeleteAbsentIsNoOp ==
    (InsertsOnly /\ ~aborted) =>
        \A q \in Keys(ktype) \ StoredKeys :
            LET res == delete(heap, root, KB(q))
            IN  /\ ~res.abort
                /\ \A k \in StoredKeys : FoundIn(res, k) = stored[k]
                /\ CountIn(res) = bfs_count(heap, root)

\* C4: delete(k) of a stored key k makes find(k) return None and leaves
\* find(k2) returning its stored value for every other stored key k2; a
\* later insert(k, v) makes find(k) return v.
C4_DeleteThenReinsert ==
    ~aborted =>
        \A k \in StoredKeys :
            LET res == delete(heap, root, KB(k))
            IN  /\ ~res.abort
                /\ FoundIn(res, k) = None
                /\ \A k2 \in StoredKeys \ {k} : FoundIn(res, k2) = stored[k2]
                /\ \A v \in Values :
                       LET res2 == insert(res.heap, res.root, KB(k), v)
                       IN  ~res2.abort /\ FoundIn(res2, k) = v

\* C5: in a tree built by inserts, for a key k that is not stored,
\* insert(k, v) followed by delete(k) gives a tree with the same number of
\* nodes and the same find result for every key as before the insert.
C5_InsertDeleteRestores ==
    (InsertsOnly /\ ~aborted) =>
        \A k \in Keys(ktype) \ StoredKeys : \A v \in Values :
            LET res1 == insert(heap, root, KB(k), v)
                res2 == delete(res1.heap, res1.root, KB(k))
            IN  /\ ~res1.abort
                /\ ~res2.abort
                /\ CountIn(res2) = bfs_count(heap, root)
                /\ \A q \in Keys(ktype) : FoundIn(res2, q) = Found(q)

\* C6: in any tree state, insert(k, v1) followed by insert(k, v2) makes
\* find(k) return v2, and the second insert does not change the number of
\* nodes of the tree.
C6_Overwrite ==
    ~aborted =>
        \A k \in Keys(ktype) : \A v1 \in Values, v2 \in Values :
            LET res1 == insert(heap, root, KB(k), v1)
                res2 == insert(res1.heap, res1.root, KB(k), v2)
            IN  /\ ~res1.abort
                /\ ~res2.abort
                /\ FoundIn(res2, k) = v2
                /\ CountIn(res2) = CountIn(res1)

\* C7: find(q) returns a value only when the leaf it reaches holds a key
\* with the length and the bytes of q; with a stored key that is a proper
\* prefix of q and q not stored, find(q) returns None.
C7_FindExactKey ==
    ~aborted =>
        \A q \in Keys(ktype) :
            LET leaf == find_loop(heap, KB(q), 0, root)
            IN  (leaf # None /\ leaf # Panic) => heap[leaf].key = KB(q)

\* C8: no insert, find or delete in a state reached by inserts and deletes
\* aborts, and every insert completes with the inserted key stored.
C8_NoAbort ==
    /\ ~aborted
    /\ \A q \in Keys(ktype) :
        /\ Found(q) # Panic
        /\ ~delete(heap, root, KB(q)).abort
        /\ \A v \in Values :
               LET res == insert(heap, root, KB(q), v)
               IN  ~res.abort /\ FoundIn(res, q) = v

\* C9: after inserting distinct keys and then deleting each of them, in
\* any order, the root is null and bfs_count returns 0.
C9_DrainLeavesEmpty ==
    (phase = "drain" /\ StoredKeys = {} /\ ~aborted) =>
        (root = NULL /\ bfs_count(heap, root) = 0)

\* C10: after any sequence of inserts and deletes that leaves the tree
\* empty, no node allocated by insert is still allocated.
C10_NoNodeLeftAllocated ==
    (root = NULL /\ ~aborted) => Len(heap) = 0

\* the nodes of the tree: the allocated nodes a walk from the root reaches
TreeNodes == Range(Walk(heap, << root >>, << >>))

\* C11: dropping the tree in a state reached by inserts and deletes frees
\* every node of the tree exactly once: free_tree reaches no node through
\* two entries of child_pointers and no leaf that delete has freed.
C11_FreeTreeOnce ==
    ~aborted =>
        LET res == free_tree(heap, root)
        IN  /\ ~res.freed_twice
            /\ \A p \in TreeNodes : ~Live(res.heap, p)

\* C12: bfs_count returns the number of nodes of the tree (inner nodes and
\* leaves) in every state reached by inserts and deletes, a Node48 or a
\* Node256 with an emptied entry below index count included, and follows
\* no null pointer.
C12_BfsCountsNodes ==
    ~aborted => bfs_count(heap, root) = Cardinality(TreeNodes)

\* C13: for fixed-width keys, two orders of inserting the same (k, v) pairs
\* with distinct keys give trees with the same find result for every key:
\* here the two orders of the last two inserts, after any inserts of
\* distinct keys into an empty tree.
C13_OrderIndependence ==
    (phase = "fill" /\ ~aborted) =>
        \A k1 \in Keys(ktype) \ StoredKeys :
        \A k2 \in Keys(ktype) \ (StoredKeys \cup {k1}) :
        \A v1 \in Values, v2 \in Values :
            LET a1 == insert(heap, root, KB(k1), v1)
                a2 == insert(a1.heap, a1.root, KB(k2), v2)
                b1 == insert(heap, root, KB(k2), v2)
                b2 == insert(b1.heap, b1.root, KB(k1), v1)
            IN  /\ ~a1.abort /\ ~a2.abort /\ ~b1.abort /\ ~b2.abort
                /\ \A q \in Keys(ktype) : FoundIn(a2, q) = FoundIn(b2, q)

\* the next larger node type
Larger(kind) ==
    IF kind = "N4" THEN "N16" ELSE IF kind = "N16" THEN "N48" ELSE "N256"

\* the child pointer find_child gives for the byte, or NULL
ChildOf(n, b) ==
    IF find_child(n, b) = -1 THEN NULL ELSE n.child_pointers[find_child(n, b)]

\* the keys of the inserts tried on the root node: the keys of the calls
\* and, for the keys below 256, a key above those of the ascending inserts
GrowKeys == IF ktype = "u16" THEN Keys(ktype) \cup {MaxFill} ELSE Keys(ktype)

\* the root is an inner node whose partial is a prefix of the key, so that
\* insert looks the key's next byte up in the root
AtRoot(k) ==
    /\ root # NULL
    /\ heap[root].kind # "Leaf"
    /\ ~prefix_panics(heap[root])
    /\ prefix(heap[root], KB(k)) = heap[root].partial_len
    /\ heap[root].partial_len < Len(KB(k))

\* insert adds a child for a new byte to the root, and the root is at capacity
GrowsRoot(k) ==
    /\ AtRoot(k)
    /\ find_child(heap[root], At(KB(k), heap[root].partial_len)) = -1
    /\ heap[root].kind # "N256"
    /\ heap[root].count = Cap(heap[root].kind)

\* C14: insert replaces an inner node (here the root) by the next larger
\* type exactly when it adds a child for a new byte to a node at capacity;
\* the new node gives every byte of the old node the same child, gives the
\* new byte the new leaf, has the same partial and partial_len, and has
\* count = old capacity + 1.  Otherwise the node keeps its type: when it
\* takes the child below capacity, and when insert goes on into the child
\* of the byte (where the call may panic in a tree a merge has left wrong,
\* and replaces nothing).
C14_GrowOnInsert ==
    ~aborted =>
        \A k \in GrowKeys : \A v \in Values :
            AtRoot(k) =>
                LET n == heap[root]
                    b == At(KB(k), n.partial_len)
                    res == insert(heap, root, KB(k), v)
                    m == res.heap[res.root]
                IN  IF GrowsRoot(k)
                    THEN /\ ~res.abort
                         /\ m.kind = Larger(n.kind)
                         /\ m.count = Cap(n.kind) + 1
                         /\ m.partial = n.partial
                         /\ m.partial_len = n.partial_len
                         /\ \A b2 \in (0..255) \ {b} : ChildOf(m, b2) = ChildOf(n, b2)
                         /\ Cardinality({b2 \in 0..255 : ChildOf(n, b2) # NULL})
                                = Cap(n.kind)
                         /\ Live(res.heap, ChildOf(m, b))
                         /\ res.heap[ChildOf(m, b)] = LeafNode_new(v, KB(k))
                    ELSE IF find_child(n, b) = -1
                    THEN /\ ~res.abort
                         /\ m.kind = n.kind
                         /\ m.count = n.count + 1
                    ELSE res.abort \/ m.kind = n.kind

\* a root at capacity, of the largest type that grows, and a key of a new byte
C14_Witness ==
    /\ ~aborted
    /\ \E k \in GrowKeys : GrowsRoot(k) /\ heap[root].kind = "N48"

\* C15: for the integer key types, signed ones included: for the keys a and
\* b that insert has turned into bytes, a < b exactly when bytes(a) is
\* smaller than bytes(b) in the lexicographic order of unsigned bytes.
C15_ByteOrderIsKeyOrder ==
    ~aborted =>
        \A a \in StoredKeys, b \in StoredKeys :
            (a < b) <=> LexLess(KB(a), KB(b))

\* p is a proper prefix of k
IsProperPrefix(p, k) == Len(p) < Len(k) /\ SubSeq(k, 1, Len(p)) = p

\* the leaves of the heap
Leaves(h) == {p \in DOMAIN h : h[p].kind = "Leaf"}

\* C16: for variable-length keys, insert changes the value of a leaf only
\* when the new key has the length and the bytes of the leaf's key; the
\* insert of a proper prefix of a stored key leaves the value found under
\* the stored key as it was.
C16_OverwriteOnlyIdenticalKey ==
    ~aborted =>
        \A k \in Keys(ktype) : \A v \in Values :
            LET res == insert(heap, root, KB(k), v)
            IN  ~res.abort =>
                    /\ \A p \in Leaves(heap) :
                           heap[p].key # KB(k) => res.heap[p].value = heap[p].value
                    /\ \A s \in StoredKeys :
                           IsProperPrefix(KB(k), KB(s)) => FoundIn(res, s) = Found(s)

\* C17: insert with a key of length zero is rejected: afterwards the tree
\* holds no leaf with an empty key and is as it was, root and nodes, for an
\* empty tree and for a tree with keys in it.
C17_EmptyKeyRejected ==
    (ktype = "String" /\ ~aborted) =>
        \A v \in Values :
            LET res == insert(heap, root, << >>, v)
            IN  /\ res.root = root
                /\ \A p \in DOMAIN heap : res.heap[p] = heap[p]
                /\ \A p \in Range(Walk(res.heap, << res.root >>, << >>)) :
                       res.heap[p].kind = "Leaf" => res.heap[p].key # << >>

\* the stored keys have one common length
OneLength == \A a \in StoredKeys, b \in StoredKeys : Len(a) = Len(b)

ChildBytes(n) == {b \in 0..255 : find_child(n, b) # -1}

\* the keys of the leaves reached from the node through find_child
RECURSIVE LeafKeys(_, _)
LeafKeys(h, node) ==
    IF ~Live(h, node) THEN {}
    ELSE IF h[node].kind = "Leaf" THEN {h[node].key}
    ELSE UNION {LeafKeys(h, ChildOf(h[node], b)) : b \in ChildBytes(h[node])}

\* the node, entered at depth d, and the inner nodes below it hold the
\* prefix of their leaves: partial is the leaves' bytes from d on, and a
\* child's byte is the leaves' byte at d + partial_len
RECURSIVE PartialOk(_, _, _)
PartialOk(h, node, d) ==
    IF ~Live(h, node) THEN FALSE
    ELSE IF h[node].kind = "Leaf" THEN TRUE
    ELSE LET n == h[node]
             m == Min(n.partial_len, MAX_PREFIX_LEN)
         IN  /\ \A key \in LeafKeys(h, node) :
                    /\ d + m <= Len(key)
                    /\ Slice(key, d, d + m) = ArrSeq(n.partial, m)
             /\ \A b \in ChildBytes(n) :
                    /\ \A key \in LeafKeys(h, ChildOf(n, b)) :
                           /\ d + n.partial_len < Len(key)
                           /\ At(key, d + n.partial_len) = b
                    /\ PartialOk(h, ChildOf(n, b), d + n.partial_len)

\* C19: after every insert and delete on fixed-width keys, every inner node
\* that insert enters at depth d has partial equal to the bytes
\* d .. d + min(partial_len, MAX_PREFIX_LEN) of every leaf key below it, and
\* its children are keyed by the leaves' byte at d + partial_len; so also a
\* child that Node4::delete_child has merged into its parent's place.
C19_PartialIsPrefix ==
    (~aborted /\ root # NULL) => PartialOk(heap, root, 0)

\* the inner nodes of the tree
InnerNodes == {p \in TreeNodes : heap[p].kind # "Leaf"}

\* C20: after every insert and delete, every inner node has
\* 2 <= count <= capacity of its type, and count is the number of distinct
\* bytes for which find_child gives a child.
C20_CountIsChildren ==
    ~aborted =>
        \A p \in InnerNodes :
            /\ 2 <= heap[p].count
            /\ heap[p].count <= Cap(heap[p].kind)
            /\ heap[p].count = Cardinality(ChildBytes(heap[p]))

\* MaxFill ascending inserts, then deletes of the least key down to three
\* keys: the root has grown to a Node256 and shrunk to a Node48, a Node16 and
\* a Node4 with three children
C20_Witness ==
    /\ ~aborted
    /\ phase = "drain"
    /\ calls = 0
    /\ Cardinality(StoredKeys) = 3
    /\ root # NULL
    /\ heap[root].kind = "N4"
    /\ heap[root].count = 3

\* C21: after every insert and delete, in every Node4 and Node16 the first
\* count bytes of key are in strictly ascending order as unsigned bytes (so
\* without duplicates), also when the keys of a Node16 mix bytes below 128
\* with bytes of 128 or more, and in the Node4 that such a Node16 shrinks to.
C21_KeysAscending ==
    ~aborted =>
        \A p \in InnerNodes :
            heap[p].kind \in {"N4", "N16"} =>
                \A i \in 0..(heap[p].count - 1) : \A j \in 0..(heap[p].count - 1) :
                    i < j => heap[p].key[i] < heap[p].key[j]

\* the Node48 of the tree
Nodes48 == {p \in InnerNodes : heap[p].kind = "N48"}

\* C22: after every insert and delete, in every Node48: a byte b has
\* key[b] # 48 exactly when key[b] is in 0..47 and child_pointers[key[b]] is
\* not null; no two bytes have the same slot; and the number of bytes with
\* key[b] # 48 is count.  So for a Node48 grown from a Node16, shrunk from a
\* Node256, and after add has taken a slot that delete had emptied.
C22_Node48Index ==
    ~aborted =>
        \A p \in Nodes48 :
            LET n == heap[p]
                B == {b \in 0..255 : n.key[b] # N48_ABSENT}
            IN  /\ \A b \in B : /\ n.key[b] \in 0..47
                                /\ n.child_pointers[n.key[b]] # NULL
                /\ \A b \in B : \A c \in B : n.key[b] = n.key[c] => b = c
                /\ Cardinality(B) = n.count

\* a Node48 in which add has taken the slot that a delete had emptied: the
\* byte of the last insert has a slot below that of another byte
C22_Witness ==
    /\ ~aborted
    /\ phase = "mixed"
    /\ root \in Nodes48
    /\ \E b \in 0..255 : \E c \in 0..255 :
           /\ c < b
           /\ heap[root].key[b] < heap[root].key[c]
           /\ heap[root].key[c] # N48_ABSENT

\* the child slots of the inner nodes of the tree: every entry of every
\* child_pointers array
ChildSlots ==
    UNION {{ChildSlot(q, i) : i \in DOMAIN heap[q].child_pointers} : q \in InnerNodes}

\* the slots that hold the pointer p, among the tree root and the child slots
Owners(p) ==
    (IF root = p THEN {RootSlot} ELSE {})
        \cup {s \in ChildSlots : heap[s.n].child_pointers[s.i] = p}

\* the nodes that the child slots of the nodes of S point to
PointedBy(S) ==
    {heap[s.n].child_pointers[s.i] : s \in {t \in ChildSlots : t.n \in S}} \ {NULL}

\* the nodes reached from the nodes of S in 1..n steps
RECURSIVE Below(_, _)
Below(S, n) ==
    IF n = 0 THEN {} ELSE PointedBy(S) \cup Below(PointedBy(S), n - 1)

\* C23: after every insert and delete, every allocated node is held by
\* exactly one slot among the tree root and all the entries of the
\* child_pointers arrays of the inner nodes, no such entry holds the address
\* of a freed node, and no node is reached from itself.
C23_SingleOwner ==
    ~aborted =>
        /\ \A s \in ChildSlots :
               LET q == heap[s.n].child_pointers[s.i]
               IN  q = NULL \/ Live(heap, q)
        /\ \A q \in DOMAIN heap : Live(heap, q) => Cardinality(Owners(q)) = 1
        /\ \A q \in InnerNodes : q \notin Below({q}, Len(heap))

\* delete finds the leaf of the key as a child of the root and removes it
RemovesAtRoot(k) ==
    /\ AtRoot(k)
    /\ LET c == ChildOf(heap[root], At(KB(k), heap[root].partial_len))
       IN  /\ Live(heap, c)
           /\ heap[c].kind = "Leaf"
           /\ heap[c].key = KB(k)

\* delete removes a leaf child of the root, and the root is then replaced:
\* by a smaller node, or by its only child left
ShrinksRoot(k) ==
    /\ RemovesAtRoot(k)
    /\ LET n == heap[root]
       IN  \/ n.kind = "N4" /\ n.count = 2
           \/ n.kind = "N16" /\ n.count = 4
           \/ n.kind = "N48" /\ n.count = 13
           \/ n.kind = "N256" /\ n.count = 36

\* C24: in every expansion, every shrink and the merge (here of the root),
\* the old node is freed only when the slot that owns it holds the new
\* pointer: in the heap in which the old node has just been freed, the slot
\* does not point to a freed node.
C24_WriteBeforeFree ==
    ~aborted =>
        \A k \in GrowKeys :
            (GrowsRoot(k) \/ ShrinksRoot(k)) =>
                LET mid == freed_old(heap, root, RootSlot)
                    p == ReadSlot(mid, root, RootSlot)
                IN  p = NULL \/ Live(mid, p)

\* the next smaller node type
Smaller(kind) ==
    IF kind = "N256" THEN "N48" ELSE IF kind = "N48" THEN "N16" ELSE "N4"

\* the count at which delete_child replaces the node by the next smaller type
ShrinkAt(kind) ==
    IF kind = "N16" THEN 3 ELSE IF kind = "N48" THEN 12 ELSE 35

\* the keys of the deletes tried on the root node: the keys of the calls
\* and, for the keys below 256, the least key stored
ShrinkKeys ==
    IF ktype = "u16" /\ StoredKeys # {}
    THEN Keys(ktype) \cup {MinStored}
    ELSE Keys(ktype)

\* C25: delete replaces a Node16, Node48 or Node256 (here the root) by the
\* next smaller type exactly when its count after the removal of the child
\* is 3, 12 or 35; the new node gives exactly the bytes left the same
\* children and has the same partial, partial_len and count.  At every
\* other count the node keeps its type.
C25_ShrinkOnDelete ==
    ~aborted =>
        \A k \in ShrinkKeys :
            (RemovesAtRoot(k) /\ heap[root].kind # "N4") =>
                LET n == heap[root]
                    b == At(KB(k), n.partial_len)
                    res == delete(heap, root, KB(k))
                    m == res.heap[res.root]
                IN  /\ ~res.abort
                    /\ m.count = n.count - 1
                    /\ m.partial = n.partial
                    /\ m.partial_len = n.partial_len
                    /\ ChildOf(m, b) = NULL
                    /\ \A b2 \in (0..255) \ {b} : ChildOf(m, b2) = ChildOf(n, b2)
                    /\ m.kind = IF n.count - 1 = ShrinkAt(n.kind)
                                THEN Smaller(n.kind)
                                ELSE n.kind

\* a Node256 root with 36 children and a stored key whose delete shrinks it
C25_Witness ==
    /\ ~aborted
    /\ \E k \in ShrinkKeys : ShrinksRoot(k) /\ heap[root].kind = "N256"

\* C26: an insert and a delete of one key that alternate at the boundary of
\* two node types do not replace the node (here the root) at every call:
\* when insert(k) has grown the node, to 5, 17 or 49 children, the delete(k)
\* that follows does not shrink it; and when delete(k) has shrunk the node,
\* to 3, 12 or 35 children, the insert(k) that follows does not grow it.
C26_NoThrash ==
    ~aborted =>
        /\ \A k \in GrowKeys : \A v \in Values :
               GrowsRoot(k) =>
                   LET a == insert(heap, root, KB(k), v)
                       b == delete(a.heap, a.root, KB(k))
                   IN  /\ ~a.abort /\ ~b.abort
                       /\ a.heap[a.root].kind = Larger(heap[root].kind)
                       /\ b.heap[b.root].kind = Larger(heap[root].kind)
                       /\ b.heap[b.root].count = Cap(heap[root].kind)
        /\ \A k \in ShrinkKeys : \A v \in Values :
               (ShrinksRoot(k) /\ heap[root].kind # "N4") =>
                   LET a == delete(heap, root, KB(k))
                       b == insert(a.heap, a.root, KB(k), v)
                   IN  /\ ~a.abort /\ ~b.abort
                       /\ a.heap[a.root].kind = Smaller(heap[root].kind)
                       /\ b.heap[b.root].kind = Smaller(heap[root].kind)
                       /\ b.heap[b.root].count = ShrinkAt(heap[root].kind) + 1

\* a Node16 root at capacity with a key of a new byte, whose insert grows it
\* to a Node48 of 17 children
C26_Witness ==
    /\ ~aborted
    /\ \E k \in GrowKeys : GrowsRoot(k) /\ heap[root].kind = "N16"

\* insert meets a root whose partial matches the key on fewer bytes than
\* partial_len: split_check takes its branch cm != partial_len
SplitsRoot(k) ==
    /\ root # NULL
    /\ heap[root].kind # "Leaf"
    /\ ~prefix_panics(heap[root])
    /\ prefix(heap[root], KB(k)) < heap[root].partial_len
    /\ prefix(heap[root], KB(k)) < Len(KB(k))

\* C27: when insert reaches an inner node (here the root, at depth 0) whose
\* partial matches the key on cm < partial_len bytes only, a new Node4 with
\* partial = old partial[..cm] takes the node's place in its slot, with two
\* children: the new leaf under byte key[depth + cm] and the old node under
\* byte partial[cm]; the old node's partial becomes old partial[cm + 1..] and
\* its partial_len is reduced by cm + 1.
C27_SplitShiftsPartial ==
    ~aborted =>
        \A k \in Keys(ktype) : \A v \in Values :
            SplitsRoot(k) =>
                LET n == heap[root]
                    cm == prefix(n, KB(k))
                    res == insert(heap, root, KB(k), v)
                    m == res.heap[res.root]
                    old == res.heap[root]
                IN  /\ ~res.abort
                    /\ res.root # root
                    /\ m.kind = "N4"
                    /\ m.count = 2
                    /\ m.partial_len = cm
                    /\ ArrSeq(m.partial, cm) = ArrSeq(n.partial, cm)
                    /\ ChildOf(m, n.partial[cm]) = root
                    /\ Live(res.heap, ChildOf(m, At(KB(k), cm)))
                    /\ res.heap[ChildOf(m, At(KB(k), cm))] = LeafNode_new(v, KB(k))
                    /\ old.partial_len = n.partial_len - (cm + 1)
                    /\ ArrSeq(old.partial, old.partial_len)
                           = [i \in 1..old.partial_len |-> n.partial[cm + i]]

\* the child left in a Node4 root of two children when delete removes the
\* leaf of the key
OtherChild(k) ==
    LET n == heap[root]
        c == ChildOf(n, At(KB(k), n.partial_len))
    IN  IF n.child_pointers[0] = c THEN n.child_pointers[1] ELSE n.child_pointers[0]

\* the byte of that child in the Node4
OtherByte(k) ==
    LET n == heap[root]
        c == ChildOf(n, At(KB(k), n.partial_len))
    IN  IF n.child_pointers[0] = c THEN n.key[1] ELSE n.key[0]

\* delete leaves the Node4 root with one child
MergesRoot(k) == ShrinksRoot(k) /\ heap[root].kind = "N4"

\* C28: when delete leaves a Node4 (here the root) with one child, the child
\* takes the Node4's place in the slot that owns the Node4 and the Node4 is
\* freed; a child that is an inner node gets as partial the Node4's
\* partial[..partial_len], then the child's key byte, then its own partial,
\* cut to MAX_PREFIX_LEN bytes, and as partial_len the sum
\* Node4.partial_len + 1 + its own partial_len; a child that is a leaf is
\* not changed.
C28_MergeOnDelete ==
    ~aborted =>
        \A k \in ShrinkKeys :
            MergesRoot(k) =>
                LET n == heap[root]
                    c == OtherChild(k)
                    res == delete(heap, root, KB(k))
                    cat == ArrSeq(n.partial, Min(n.partial_len, MAX_PREFIX_LEN))
                               \o << OtherByte(k) >>
                               \o ArrSeq(heap[c].partial,
                                         Min(heap[c].partial_len, MAX_PREFIX_LEN))
                    len == Min(Len(cat), MAX_PREFIX_LEN)
                IN  /\ ~res.abort
                    /\ res.root = c
                    /\ ~Live(res.heap, root)
                    /\ Live(res.heap, c)
                    /\ IF heap[c].kind = "Leaf"
                       THEN res.heap[c] = heap[c]
                       ELSE /\ res.heap[c].partial_len
                                   = n.partial_len + 1 + heap[c].partial_len
                            /\ ArrSeq(res.heap[c].partial, len) = SubSeq(cat, 1, len)
                            /\ res.heap[c].kind = heap[c].kind
                            /\ res.heap[c].count = heap[c].count
                            /\ res.heap[c].key = heap[c].key
                            /\ res.heap[c].child_pointers = heap[c].child_pointers

\* a Node4 root over a leaf and an inner node, and the key of the leaf
C28_Witness ==
    /\ ~aborted
    /\ \E k \in ShrinkKeys :
           /\ MergesRoot(k)
           /\ Live(heap, OtherChild(k))
           /\ heap[OtherChild(k)].kind # "Leaf"

\* C29: for two keys of one length whose common prefix, from the depth at
\* which the leaf is split (here 0, the first two inserts), is longer than
\* MAX_PREFIX_LEN bytes: the Node4 that the split makes has partial_len equal
\* to the whole common length, and find returns both keys afterwards.
C29_LongPrefixKept ==
    (phase = "fill" /\ ~aborted /\ Cardinality(StoredKeys) = 2) =>
        \A k1 \in StoredKeys : \A k2 \in StoredKeys \ {k1} :
            (/\ Len(KB(k1)) = Len(KB(k2))
             /\ common_prefix(KB(k1), KB(k2)) > MAX_PREFIX_LEN) =>
                /\ heap[root].kind = "N4"
                /\ heap[root].partial_len = common_prefix(KB(k1), KB(k2))
                /\ Found(k1) = stored[k1]
                /\ Found(k2) = stored[k2]

\* C30: the prefix comparison at an inner node takes at most
\* min(partial_len, MAX_PREFIX_LEN, rest of the key) bytes: also at a node
\* whose partial_len is above MAX_PREFIX_LEN, as the merge of
\* Node4::delete_child leaves it, the slice of partial that find, insert and
\* delete take at the node lies within the MAX_PREFIX_LEN entries of the
\* array, and the count of matched bytes is within that minimum.
C30_PrefixWithinPartial ==
    ~aborted =>
        \A p \in InnerNodes :
            /\ ~prefix_panics(heap[p])
            /\ \A k \in Keys(ktype) :
                   prefix(heap[p], KB(k))
                       <= Min(Min(heap[p].partial_len, MAX_PREFIX_LEN), Len(KB(k)))

\* the fewest children a node of the kind holds between two calls
MinCount(kind) ==
    IF kind = "N4" THEN 2 ELSE IF kind = "N16" THEN 4
    ELSE IF kind = "N48" THEN 13 ELSE 36

\* the number of children a node of the kind has room for
Capacity(kind) ==
    IF kind = "N4" THEN 4 ELSE IF kind = "N16" THEN 16
    ELSE IF kind = "N48" THEN 48 ELSE 256

\* C31: after every insert and delete, every inner node of the tree has a
\* count in the range of its variant: 2..4 for Node4, 4..16 for Node16,
\* 13..48 for Node48 and 36..256 for Node256.
C31_CountFitsVariant ==
    ~aborted =>
        \A p \in InnerNodes :
            /\ heap[p].count >= MinCount(heap[p].kind)
            /\ heap[p].count <= Capacity(heap[p].kind)

\* deletes have shrunk the root from a Node256 to a Node48 and left it with
\* the fewest children a Node48 holds
C31_Witness ==
    /\ phase = "drain" /\ ~aborted
    /\ Cardinality(StoredKeys) = 13
    /\ root # NULL
    /\ heap[root].kind = "N48" /\ heap[root].count = 13

\* a stored key is a proper prefix of another stored key
HasPrefixPair ==
    \E a \in StoredKeys, b \in StoredKeys :
        Len(a) < Len(b) /\ SubSeq(b, 1, Len(a)) = a

\* C32: RadixTree: after inserts of pairs with distinct non-empty keys into
\* a new tree, in any order and with keys that are proper prefixes of other
\* keys among them, find(k) returns the inserted value for every inserted
\* key k.
C32_RadixPrefixKeys ==
    (phase = "fill" /\ HasPrefixPair /\ ~aborted) =>
        \A k \in StoredKeys : RadixTree_find(radix, k).value = stored[k]

\* C33: TrieNode: after any sequence of add calls on a new trie, find(s)
\* is true for every sequence s that was added, also when a proper prefix of
\* s or the empty sequence was added before s.
C33_TrieAddFind ==
    \A s \in StoredKeys : TrieNode_find(trie, s)

====
